---- MODULE Spec2Model ----
(***************************************************************************)
(* stublint: the lint rules of LintVisitor (stublint/linter.py) and the    *)
(* command-line run (stublint/__main__.py).                                *)
(*                                                                         *)
(* A syntax tree is a record with a `type` field (the ast class name) and  *)
(* the fields of that class; ast lists are sequences, None is NoneVal.     *)
(* Python strings that the code inspects character by character            *)
(* (identifiers, path components) are sequences of one-character strings.  *)
(* The visitor object is the record `self` with the fields filename,       *)
(* strict, saw_error; during a call it is carried in a frame together with *)
(* sys.stderr and the exception that is propagating.                       *)
(***************************************************************************)
EXTENDS Integers, Sequences, FiniteSets, TLC

VARIABLES
    self,       \* the LintVisitor of the file being analysed
    tree,       \* Module.body of the file being analysed
    pos,        \* number of statements of Module.body already visited
    pc,         \* control point of the run
    args,       \* command-line arguments (the file system entry each names)
    argi,       \* extract_files: index of the argument being expanded
    diri,       \* extract_files: files of a directory argument already walked
    results,    \* run: the list of lint_file results collected so far
    stderr,     \* the lines printed to sys.stderr
    exc,        \* the exception that is propagating, NoException when none is
    exit_code   \* process exit status, -1 while running

vars == <<self, tree, pos, pc, exc, args, argi, diri, results, stderr, exit_code>>

----------------------------------------------------------------------------
(* Python strings as character sequences *)

S_self == <<"s", "e", "l", "f">>
S_sys == <<"s", "y", "s">>
S_os == <<"o", "s">>
S_TypeVar == <<"T", "y", "p", "e", "V", "a", "r">>
S_T == <<"T">>
S__T == <<"_", "T">>
S_AnyStr == <<"A", "n", "y", "S", "t", "r">>
S_y == <<"y">>
S_pyi == <<".", "p", "y", "i">>
S_typing_pyi == <<"t", "y", "p", "i", "n", "g", ".", "p", "y", "i">>
S_a_pyi == <<"a", ".", "p", "y", "i">>
S_b_pyi == <<"b", ".", "p", "y", "i">>
S_a_py == <<"a", ".", "p", "y">>
S_pkg == <<"p", "k", "g">>

\* str.startswith
startswith(s, prefix) ==
    /\ Len(s) >= Len(prefix)
    /\ SubSeq(s, 1, Len(prefix)) = prefix

\* str.endswith
endswith(s, suffix) ==
    /\ Len(s) >= Len(suffix)
    /\ SubSeq(s, Len(s) - Len(suffix) + 1, Len(s)) = suffix

\* pathlib: a Path is the sequence of its components; .name is the last one
PathName(path) == IF Len(path) = 0 THEN <<>> ELSE path[Len(path)]

\* pathlib: .suffix is the part of .name from its last dot, empty when the
\* name has no dot after its first character or ends with the dot
PathSuffix(path) ==
    LET name == PathName(path)
        dots == {i \in 2..Len(name) : name[i] = "."}
        last == CHOOSE i \in dots : \A j \in dots : j <= i
    IN  IF dots = {} THEN <<>>
        ELSE IF last = Len(name) THEN <<>>
        ELSE SubSeq(name, last, Len(name))

----------------------------------------------------------------------------
(* Syntax trees (module ast of Python 3.6) *)

NoneVal == [type |-> "None"]

Name(l, id) == [type |-> "Name", lineno |-> l, id |-> id]
Num(l, n) == [type |-> "Num", lineno |-> l, n |-> n]
Str(l, s) == [type |-> "Str", lineno |-> l, s |-> s]
EllipsisExpr(l) == [type |-> "Ellipsis", lineno |-> l]
Attribute(l, value, attr) ==
    [type |-> "Attribute", lineno |-> l, value |-> value, attr |-> attr]
Tuple(l, elts) == [type |-> "Tuple", lineno |-> l, elts |-> elts]
List(l, elts) == [type |-> "List", lineno |-> l, elts |-> elts]
Index(value) == [type |-> "Index", value |-> value]
Slice(lower, upper, step) ==
    [type |-> "Slice", lower |-> lower, upper |-> upper, step |-> step]
ExtSlice(dims) == [type |-> "ExtSlice", dims |-> dims]
Subscript(l, value, slice) ==
    [type |-> "Subscript", lineno |-> l, value |-> value, slice |-> slice]
Compare(l, left, ops, comparators) ==
    [type |-> "Compare", lineno |-> l, left |-> left, ops |-> ops,
     comparators |-> comparators]
BoolOp(l, op, values) ==
    [type |-> "BoolOp", lineno |-> l, op |-> op, values |-> values]
Call(l, func, cargs) ==
    [type |-> "Call", lineno |-> l, func |-> func, args |-> cargs]
Lambda(l, largs, body) ==
    [type |-> "Lambda", lineno |-> l, args |-> largs, body |-> body]
Arg(l, name, annotation) ==
    [type |-> "arg", lineno |-> l, arg |-> name, annotation |-> annotation]
Arguments(pargs, vararg, kwonlyargs, kw_defaults, kwarg, defaults) ==
    [type |-> "arguments", args |-> pargs, vararg |-> vararg,
     kwonlyargs |-> kwonlyargs, kw_defaults |-> kw_defaults,
     kwarg |-> kwarg, defaults |-> defaults]
Pass(l) == [type |-> "Pass", lineno |-> l]
Expr(l, value) == [type |-> "Expr", lineno |-> l, value |-> value]
Raise(l, e) == [type |-> "Raise", lineno |-> l, exc |-> e]
Assign(l, targets, value) ==
    [type |-> "Assign", lineno |-> l, targets |-> targets, value |-> value]
FunctionDef(l, name, fargs, body, decorator_list, returns) ==
    [type |-> "FunctionDef", lineno |-> l, name |-> name, args |-> fargs,
     body |-> body, decorator_list |-> decorator_list, returns |-> returns]
ClassDef(l, name, body) ==
    [type |-> "ClassDef", lineno |-> l, name |-> name, body |-> body]
If(l, test, body, orelse) ==
    [type |-> "If", lineno |-> l, test |-> test, body |-> body,
     orelse |-> orelse]

isinstance(node, t) == node.type = t

\* the entries of a field that generic_visit visits: the AST nodes of a list,
\* or the node itself unless it is None
Opt(x) == IF x = NoneVal THEN <<>> ELSE <<x>>

RECURSIVE Somes(_)
Somes(xs) ==
    IF xs = <<>> THEN <<>> ELSE Opt(Head(xs)) \o Somes(Tail(xs))

\* ast.iter_fields: the child nodes in the order of the class's _fields
\* (operator and context nodes have no children and no rule, and are left out)
Children(node) ==
    CASE node.type = "FunctionDef" ->
            <<node.args>> \o node.body \o node.decorator_list \o Opt(node.returns)
      [] node.type = "ClassDef" -> node.body
      [] node.type = "If" -> <<node.test>> \o node.body \o node.orelse
      [] node.type = "Assign" -> node.targets \o <<node.value>>
      [] node.type = "Expr" -> <<node.value>>
      [] node.type = "Raise" -> Opt(node.exc)
      [] node.type = "arguments" ->
            node.args \o Opt(node.vararg) \o node.kwonlyargs
            \o Somes(node.kw_defaults) \o Opt(node.kwarg) \o node.defaults
      [] node.type = "arg" -> Opt(node.annotation)
      [] node.type = "Compare" -> <<node.left>> \o node.comparators
      [] node.type = "BoolOp" -> node.values
      [] node.type = "Attribute" -> <<node.value>>
      [] node.type = "Subscript" -> <<node.value, node.slice>>
      [] node.type = "Index" -> <<node.value>>
      [] node.type = "Slice" ->
            Opt(node.lower) \o Opt(node.upper) \o Opt(node.step)
      [] node.type = "ExtSlice" -> node.dims
      [] node.type = "Call" -> <<node.func>> \o node.args
      [] node.type = "Lambda" -> <<node.args, node.body>>
      [] node.type \in {"Tuple", "List"} -> node.elts
      [] OTHER -> <<>>

----------------------------------------------------------------------------
(* LintVisitor *)

_MUST_HAVE_SYS ==
    "Conditional expression must have sys.version_info or sys.platform as its left operand"
_BAD_VERSION_SLICE == "Unrecognized sys.version_info subscript"
_VERSION_COMPARE_NUMBER ==
    "sys.version_info comparison must be against an int or tuple of ints"

\* exceptions: the class, and for StubLintError its message and the path in it
NoException == [type |-> "none"]
AttributeError == [type |-> "AttributeError"]
StubLintError(msg, path) == [type |-> "StubLintError", msg |-> msg, path |-> path]

\* LintVisitor.__init__: the visitor object
LintVisitor(filename, strict) ==
    [filename |-> filename, strict |-> strict, saw_error |-> FALSE]

\* the visitor object during a call, together with the stream it prints to
\* and the exception that call is propagating
Frame(obj, stream) ==
    [filename |-> obj.filename, strict |-> obj.strict,
     saw_error |-> obj.saw_error, stderr |-> stream, exc |-> NoException]

Object(v) ==
    [filename |-> v.filename, strict |-> v.strict, saw_error |-> v.saw_error]

Raised(v) == v.exc.type # "none"

ErrorWithoutFlag(v, node, msg) ==
    [v EXCEPT !.stderr = Append(@, [filename |-> v.filename,
                                    lineno |-> node.lineno, msg |-> msg])]

\* LintVisitor.error
error(v, node, msg) ==
    [v EXCEPT !.saw_error = TRUE,
              !.stderr = Append(@, [filename |-> v.filename,
                                    lineno |-> node.lineno, msg |-> msg])]

\* a for loop that calls error(item, msg) on each of `nodes` in order
RECURSIVE ErrorEach(_, _, _)
ErrorEach(v, nodes, msg) ==
    IF nodes = <<>> THEN v
    ELSE ErrorEach(error(v, Head(nodes), msg), Tail(nodes), msg)

\* _check_version_check, the subscript of the left operand: must_be_single,
\* can_have_strict_equals (Optional[int]: <<>> is None, <<n>> is the int n)
\* and whether the subscript is reported as unrecognized
VersionShape(node) ==
    LET version_info == node.left
        slc == version_info.slice
        sub == isinstance(version_info, "Subscript")
        zero == /\ sub
                /\ isinstance(slc, "Index")
                /\ isinstance(slc.value, "Num")
                /\ slc.value.n = 0
        prefix == /\ sub
                  /\ isinstance(slc, "Slice")
                  /\ slc.lower = NoneVal
                  /\ slc.step = NoneVal
                  /\ isinstance(slc.upper, "Num")
                  /\ slc.upper.n \in {1, 2}
    IN  [must_be_single |-> zero,
         can_have_strict_equals |-> IF prefix THEN <<slc.upper.n>> ELSE <<>>,
         bad |-> sub /\ ~zero /\ ~prefix]

\* _check_version_check, the comparator when the left operand is not [0]
CheckTupleComparator(v, node) ==
    LET comparator == node.comparators[1]
    IN  IF ~isinstance(comparator, "Tuple")
            THEN error(v, node, _VERSION_COMPARE_NUMBER)
        ELSE IF \E i \in 1..Len(comparator.elts) :
                    ~isinstance(comparator.elts[i], "Num")
            THEN error(v, node, _VERSION_COMPARE_NUMBER)
        ELSE IF Len(comparator.elts) > 2
            THEN error(v, node,
                   "version comparison must use only major and minor version")
        ELSE v

\* the classes of ast that have an elts field
HasElts(node) == node.type \in {"Tuple", "List", "Set"}

CheckOperatorSwapped(v, node, can_have_strict_equals) ==
    LET comparator == node.comparators[1]
        cmpop == node.ops[1]
    IN  IF cmpop \in {"Lt", "Gt"} THEN v
        ELSE IF cmpop \in {"Eq", "NotEq"}
        THEN IF can_have_strict_equals # <<>>
             THEN IF ~HasElts(comparator)
                  THEN [v EXCEPT !.exc = AttributeError]
                  ELSE IF Len(comparator.elts) # can_have_strict_equals[1]
                  THEN error(v, node,
                         "version comparison must be against a length-"
                         \o ToString(can_have_strict_equals[1]) \o " tuple")
                  ELSE v
             ELSE error(v, node, "Do not use strict equality for version checks")
        ELSE error(v, node, "Use only < and >= for version comparisons")

\* _check_version_check, the operator when the left operand is not [0];
\* len(comparator.elts) raises AttributeError when the comparator has no elts
CheckOperator(v, node, can_have_strict_equals) ==
    LET comparator == node.comparators[1]
        cmpop == node.ops[1]
    IN  IF cmpop \in {"Lt", "GtE"} THEN v
        ELSE IF cmpop \in {"Eq", "NotEq"}
        THEN IF can_have_strict_equals # <<>>
             THEN IF ~HasElts(comparator)
                  THEN [v EXCEPT !.exc = AttributeError]
                  ELSE IF Len(comparator.elts) # can_have_strict_equals[1]
                  THEN error(v, node,
                         "version comparison must be against a length-"
                         \o ToString(can_have_strict_equals[1]) \o " tuple")
                  ELSE v
             ELSE error(v, node, "Do not use strict equality for version checks")
        ELSE error(v, node, "Use only < and >= for version comparisons")

\* LintVisitor._check_version_check
_check_version_check(v, node) ==
    LET shape == VersionShape(node)
        v1 == IF shape.bad THEN error(v, node, _BAD_VERSION_SLICE) ELSE v
        comparator == node.comparators[1]
    IN  IF shape.must_be_single
        THEN IF ~isinstance(comparator, "Num")
             THEN error(v1, node, _VERSION_COMPARE_NUMBER) ELSE v1
        ELSE CheckOperator(CheckTupleComparator(v1, node), node,
                           shape.can_have_strict_equals)

PlatformsWithoutCygwin == {"linux", "win32", "darwin"}

\* the platform names _check_platform_check accepts
Platforms == {"linux", "win32", "cygwin", "darwin"}

\* LintVisitor._check_platform_check
_check_platform_check(v, node) ==
    LET cmpop == node.ops[1]
        v1 == IF cmpop \notin {"Eq", "NotEq"}
              THEN error(v, node, "sys.platform check only supports == and !=")
              ELSE v
        comparator == node.comparators[1]
    IN  IF isinstance(comparator, "Str")
        THEN IF comparator.s \notin Platforms
             THEN error(v1, node,
                    "unrecognized platform \"" \o comparator.s \o "\"")
             ELSE v1
        ELSE error(v1, node, "sys.platform check must be against a single string")

\* LintVisitor._check_if_expr
_check_if_expr(v, node) ==
    IF ~isinstance(node, "Compare")
    THEN error(v, node, "Conditional expression must be a simple comparison")
    ELSE IF Len(node.comparators) # 1
    THEN error(v, node, "Conditional expression must be a simple comparison")
    ELSE IF isinstance(node.left, "Subscript")
    THEN _check_version_check(v, node)
    ELSE IF isinstance(node.left, "Attribute")
    THEN IF isinstance(node.left.value, "Name") /\ node.left.value.id = S_sys
         THEN IF node.left.attr = "platform"
              THEN _check_platform_check(v, node)
              ELSE IF node.left.attr = "version_info"
              THEN _check_version_check(v, node)
              ELSE error(v, node, _MUST_HAVE_SYS)
         ELSE error(v, node, _MUST_HAVE_SYS)
    ELSE error(v, node, _MUST_HAVE_SYS)

\* the loop of visit_If over the operands of the test
RECURSIVE CheckEach(_, _)
CheckEach(v, exprs) ==
    IF exprs = <<>> \/ Raised(v) THEN v
    ELSE CheckEach(_check_if_expr(v, Head(exprs)), Tail(exprs))

RECURSIVE generic_visit(_, _)

GetArgsSkippingEverySelf(node) ==
    LET Named(a) == a.arg \notin {"self", "cls"}
    IN  SelectSeq(node.args, Named)
        \o Opt(node.vararg) \o node.kwonlyargs \o Opt(node.kwarg)

\* get_args of visit_arguments
get_args(node) ==
    (IF node.args # <<>>
     THEN (IF node.args[1].arg \notin {"self", "cls"}
           THEN <<node.args[1]>> ELSE <<>>) \o Tail(node.args)
     ELSE <<>>)
    \o Opt(node.vararg) \o node.kwonlyargs \o Opt(node.kwarg)

\* LintVisitor.visit_arguments
visit_arguments(v, node) ==
    LET v1 == generic_visit(v, node)
        BadDefault(d) == ~isinstance(d, "Ellipsis") /\ d # NoneVal
        Unannotated(a) == a.annotation = NoneVal
        v2 == ErrorEach(v1, SelectSeq(node.kw_defaults \o node.defaults, BadDefault),
                        "default value must be ... in a stub")
    IN  IF Raised(v1) \/ ~v1.strict THEN v1
        ELSE ErrorEach(v2, SelectSeq(get_args(node), Unannotated),
                       "Argument is missing a type annotation")

CheckTargetAnyFile(v, target) ==
    IF ~isinstance(target, "Name")
    THEN error(v, target, "TypeVar must be assigned to a name")
    ELSE IF ~startswith(target.id, <<"_">>)
    THEN error(v, target, "Name of private TypeVar must start with _")
    ELSE v

\* visit_Assign, the body of the loop over the targets
CheckTarget(v, target) ==
    IF ~isinstance(target, "Name")
    THEN error(v, target, "TypeVar must be assigned to a name")
    ELSE IF ~startswith(target.id, <<"_">>)
    THEN IF PathName(v.filename) # S_typing_pyi
         THEN error(v, target, "Name of private TypeVar must start with _")
         ELSE v
    ELSE v

\* LintVisitor.visit_Assign
visit_Assign(v, node) ==
    LET v1 == generic_visit(v, node)
        Loop[i \in 0..Len(node.targets)] ==
            IF i = 0 THEN v1 ELSE CheckTarget(Loop[i - 1], node.targets[i])
    IN  IF Raised(v1) THEN v1
        ELSE IF /\ isinstance(node.value, "Call")
                /\ isinstance(node.value.func, "Name")
                /\ node.value.func.id = S_TypeVar
        THEN Loop[Len(node.targets)]
        ELSE v1

AllowedAtAnyIndex(node, i, statement) ==
    \/ isinstance(statement, "Pass")
    \/ /\ isinstance(statement, "Expr")
       /\ isinstance(statement.value, "Ellipsis")
    \/ isinstance(statement, "Raise")
    \/ /\ node.name = "__init__"
       /\ isinstance(statement, "Assign")
       /\ isinstance(statement.targets[1], "Attribute")
       /\ isinstance(statement.targets[1].value, "Name")
       /\ statement.targets[1].value.id = S_self

\* the body statements visit_FunctionDef accepts (i counts from 0)
AllowedInBody(node, i, statement) ==
    \/ /\ i = 0
       /\ \/ isinstance(statement, "Pass")
          \/ /\ isinstance(statement, "Expr")
             /\ isinstance(statement.value, "Ellipsis")
    \/ isinstance(statement, "Raise")
    \/ /\ node.name = "__init__"
       /\ isinstance(statement, "Assign")
       /\ isinstance(statement.targets[1], "Attribute")
       /\ isinstance(statement.targets[1].value, "Name")
       /\ statement.targets[1].value.id = S_self

\* LintVisitor.visit_FunctionDef
visit_FunctionDef(v, node) ==
    LET v1 == generic_visit(v, node)
        v2 == IF v1.strict /\ node.returns = NoneVal
              THEN error(v1, node, "Function is missing a return type annotation")
              ELSE v1
        Loop[n \in 0..Len(node.body)] ==
            IF n = 0 THEN v2
            ELSE IF AllowedInBody(node, n - 1, node.body[n]) THEN Loop[n - 1]
            ELSE error(Loop[n - 1], node.body[n],
                       "Function body must contain only ... or pass")
    IN  IF Raised(v1) THEN v1 ELSE Loop[Len(node.body)]

VisitIfUnwrappingAnd(v, node) ==
    LET v1 == generic_visit(v, node)
        test == node.test
    IN  IF Raised(v1) THEN v1
        ELSE IF isinstance(test, "BoolOp") /\ test.op = "And"
        THEN CheckEach(v1, test.values)
        ELSE _check_if_expr(v1, test)

\* LintVisitor.visit_If
visit_If(v, node) ==
    LET v1 == generic_visit(v, node)
        test == node.test
    IN  IF Raised(v1) THEN v1
        ELSE IF isinstance(test, "BoolOp") THEN CheckEach(v1, test.values)
        ELSE _check_if_expr(v1, test)

\* ast.NodeVisitor.visit: the visit_<class> method when there is one
visit(v, node) ==
    CASE node.type = "arguments" -> visit_arguments(v, node)
      [] node.type = "Assign" -> visit_Assign(v, node)
      [] node.type = "FunctionDef" -> visit_FunctionDef(v, node)
      [] node.type = "If" -> visit_If(v, node)
      [] OTHER -> generic_visit(v, node)

\* the loop of generic_visit over the children; an exception ends it
RECURSIVE VisitEach(_, _)
VisitEach(v, nodes) ==
    IF nodes = <<>> \/ Raised(v) THEN v
    ELSE VisitEach(visit(v, Head(nodes)), Tail(nodes))

\* ast.NodeVisitor.generic_visit
generic_visit(v, node) == VisitEach(v, Children(node))
----------------------------------------------------------------------------
(* The trees and files the runs are checked on *)

MaxUpper == 3       \* slice upper bounds 1..MaxUpper
MaxTuple == 3       \* comparator tuples of 0..MaxTuple elements
MaxOperands == 2    \* operands of a boolean operation: 2..MaxOperands
MaxBody == 2        \* statements of a function body: 0..MaxBody
MaxParams == 2      \* positional parameters: 0..MaxParams
MaxTargets == 2     \* targets of an assignment: 1..MaxTargets
MaxStmts == 2       \* statements of a module body: 1..MaxStmts
MaxArgv == 2        \* command-line arguments: 1..MaxArgv

\* the sequences over S of length lo..hi
SeqsOf(S, lo, hi) == UNION {[1..n -> S] : n \in lo..hi}

CmpOps == {"Lt", "GtE", "Eq", "NotEq", "Gt", "LtE", "In"}

SysAttr(l, attr) == Attribute(l, Name(l, S_sys), attr)

VersionSlices(l) ==
    {Index(Num(l, 0)), Index(Num(l, 1)), Index(Name(l, S_y)),
     Slice(Num(l, 0), Num(l, 2), NoneVal),
     Slice(NoneVal, Num(l, 2), Num(l, 1)),
     Slice(NoneVal, NoneVal, NoneVal),
     Slice(NoneVal, Name(l, S_y), NoneVal),
     ExtSlice(<<Index(Num(l, 0)), Index(Num(l, 0))>>)}
    \cup {Slice(NoneVal, Num(l, n), NoneVal) : n \in 1..MaxUpper}

VersionLefts(l) ==
    {SysAttr(l, "version_info")}
    \cup {Subscript(l, SysAttr(l, "version_info"), s) : s \in VersionSlices(l)}
    \cup {Subscript(l, Name(l, S_y), Slice(NoneVal, Num(l, 2), NoneVal))}

IntTuple(l, n) == Tuple(l, [i \in 1..n |-> Num(l, i + 2)])

VersionComparators(l) ==
    {IntTuple(l, n) : n \in 0..MaxTuple}
    \cup {Tuple(l, <<Num(l, 3), Str(l, "6")>>),
          List(l, <<Num(l, 3), Num(l, 6)>>),
          Num(l, 3), Name(l, S_y), Str(l, "3")}

VersionCompares(l) ==
    {Compare(l, left, <<op>>, <<c>>) :
        left \in VersionLefts(l), op \in CmpOps, c \in VersionComparators(l)}

PlatformComparators(l) ==
    {Str(l, s) : s \in {"linux", "win32", "cygwin", "darwin", "solaris", "Linux"}}
    \cup {Num(l, 3), Name(l, S_y), Tuple(l, <<Str(l, "linux")>>)}

PlatformCompares(l) ==
    {Compare(l, SysAttr(l, "platform"), <<op>>, <<c>>) :
        op \in CmpOps, c \in PlatformComparators(l)}

\* comparisons whose left operand is neither a subscript nor sys.platform
\* nor sys.version_info
OtherCompares(l) ==
    {Compare(l, left, <<"Eq">>, <<Str(l, "linux")>>) :
        left \in {SysAttr(l, "maxsize"),
                  Attribute(l, Name(l, S_os), "platform"),
                  Attribute(l, SysAttr(l, "version_info"), "major"),
                  Name(l, S_y)}}

\* operands of a boolean operation in the test of an if statement
Operands(l) ==
    {Compare(l, SysAttr(l, "platform"), <<"Eq">>, <<Str(l, "linux")>>),
     Compare(l, SysAttr(l, "platform"), <<"Eq">>, <<Str(l, "darwin")>>),
     Compare(l, SysAttr(l, "version_info"), <<"GtE">>, <<IntTuple(l, 2)>>),
     Compare(l, SysAttr(l, "version_info"), <<"GtE", "Lt">>,
             <<IntTuple(l, 1), IntTuple(l, 2)>>),
     Compare(l, Subscript(l, SysAttr(l, "version_info"),
                          Slice(NoneVal, Num(l, 2), NoneVal)),
             <<"Eq">>, <<Num(l, 3)>>),
     Name(l, S_y),
     BoolOp(l, "And", <<Name(l, S_y), Name(l, S_y)>>)}

BoolTests(l) ==
    {BoolOp(l, op, values) :
        op \in {"And", "Or"}, values \in SeqsOf(Operands(l), 2, MaxOperands)}

IfTests(l) ==
    VersionCompares(l) \cup PlatformCompares(l) \cup OtherCompares(l)
    \cup Operands(l) \cup BoolTests(l)

IfStatements(l) == {If(l, test, <<Pass(l + 1)>>, <<>>) : test \in IfTests(l)}

SelfAttr(l, attr) == Attribute(l, Name(l, S_self), attr)

\* statements of a function body, on line l
BodyStatements(l) ==
    {Pass(l), Expr(l, EllipsisExpr(l)), Expr(l, Str(l, "doc")),
     Raise(l, Name(l, S_y)),
     Assign(l, <<SelfAttr(l, "x")>>, Num(l, 1)),
     Assign(l, <<SelfAttr(l, "x"), Name(l, S_y)>>, Num(l, 1)),
     Assign(l, <<Name(l, S_y), SelfAttr(l, "x")>>, Num(l, 1)),
     Assign(l, <<Attribute(l, SelfAttr(l, "x"), "z")>>, Num(l, 1)),
     Assign(l, <<Attribute(l, Name(l, S_y), "x")>>, Num(l, 1))}

\* the bodies of n statements whose first statement is on line l
RECURSIVE BodiesFrom(_, _)
BodiesFrom(l, n) ==
    IF n = 0 THEN {<<>>}
    ELSE {<<st>> \o rest : st \in BodyStatements(l), rest \in BodiesFrom(l + 1, n - 1)}

Bodies(l) == UNION {BodiesFrom(l, n) : n \in 1..MaxBody}

NoArguments == Arguments(<<>>, NoneVal, <<>>, <<>>, NoneVal, <<>>)

Annotation(l) == Name(l, <<"i", "n", "t">>)

\* function definitions with every shape of body
BodyFunctions(l) ==
    {FunctionDef(l, name, NoArguments, body, <<>>, returns) :
        name \in {"__init__", "f"}, body \in Bodies(l + 1),
        returns \in {NoneVal, Annotation(l)}}

Params(l) ==
    {Arg(l, "self", NoneVal), Arg(l, "cls", NoneVal), Arg(l, "x", NoneVal),
     Arg(l, "x", Annotation(l))}

KwParams(l) ==
    {Arg(l, "k", NoneVal), Arg(l, "k", Annotation(l)), Arg(l, "self", NoneVal)}

VarParams(l, name) ==
    {NoneVal, Arg(l, name, NoneVal), Arg(l, name, Annotation(l))}

\* parameter lists: defaults belong to the last positional parameters, and
\* kw_defaults has one entry (None when there is no default) per keyword-only
\* parameter
ArgumentsSet(l) ==
    {Arguments(pargs, vararg, kwonly, kw_defaults, kwarg, defaults) :
        pargs \in SeqsOf(Params(l), 0, MaxParams),
        vararg \in VarParams(l, "args"),
        kwonly \in SeqsOf(KwParams(l), 0, 1),
        kw_defaults \in SeqsOf({NoneVal, Num(l, 0)}, 0, 1),
        kwarg \in VarParams(l, "kwargs"),
        defaults \in SeqsOf({EllipsisExpr(l), Num(l, 0)}, 0, 1)}

WellFormedArguments(a) ==
    /\ Len(a.kw_defaults) = Len(a.kwonlyargs)
    /\ Len(a.defaults) <= Len(a.args)

\* function definitions with every shape of parameter list
ParamFunctions(l) ==
    {FunctionDef(l, "f", a, <<Expr(l + 1, EllipsisExpr(l + 1))>>, <<>>, Annotation(l)) :
        a \in {x \in ArgumentsSet(l) : WellFormedArguments(x)}}

AssignTargets(l) ==
    {Name(l, S__T), Name(l, S_T), Name(l, S_AnyStr),
     SelfAttr(l, "T"), Tuple(l, <<Name(l, S__T), Name(l, S_T)>>)}

AssignValues(l) ==
    {Call(l, Name(l, S_TypeVar), <<Str(l, "T")>>),
     Call(l, Attribute(l, Name(l, S_y), "TypeVar"), <<Str(l, "T")>>),
     Call(l, Name(l, S_T), <<Str(l, "T")>>),
     Name(l, S_TypeVar),
     Num(l, 1)}

Assignments(l) ==
    {Assign(l, targets, value) :
        targets \in SeqsOf(AssignTargets(l), 1, MaxTargets),
        value \in AssignValues(l)}

Filenames ==
    {<<S_a_pyi>>, <<S_typing_pyi>>, <<S_pkg, S_typing_pyi>>, <<S_typing_pyi, S_a_pyi>>}

Method(l, name, body) ==
    FunctionDef(l, name, Arguments(<<Arg(l, "self", NoneVal)>>, NoneVal, <<>>, <<>>,
                                   NoneVal, <<>>),
                body, <<>>, NoneVal)

\* top-level statements of the module bodies of several statements
TopStatements(l) ==
    {If(l, Compare(l, SysAttr(l, "platform"), <<"Eq">>, <<Str(l, "linux")>>),
        <<Pass(l + 1)>>, <<>>),
     If(l, Compare(l, SysAttr(l, "platform"), <<"Eq">>, <<Str(l, "solaris")>>),
        <<Pass(l + 1)>>, <<>>),
     If(l, Compare(l, Subscript(l, SysAttr(l, "version_info"),
                                Slice(NoneVal, Num(l, 2), NoneVal)),
                   <<"Eq">>, <<Num(l, 3)>>),
        <<Pass(l + 1)>>, <<>>),
     If(l, Name(l, S_y),
        <<Method(l + 1, "f", <<Pass(l + 2), Pass(l + 3)>>)>>,
        <<Assign(l + 5, <<Name(l + 5, S_T)>>,
                 Call(l + 5, Name(l + 5, S_TypeVar), <<>>))>>),
     ClassDef(l, "C",
        <<Method(l + 1, "__init__",
                 <<Assign(l + 2, <<SelfAttr(l + 2, "x")>>, Num(l + 2, 1)),
                   Expr(l + 3, Str(l + 3, "doc"))>>)>>),
     FunctionDef(l + 1, "g",
        Arguments(<<Arg(l + 1, "x", NoneVal)>>, NoneVal, <<>>, <<>>, NoneVal, <<>>),
        <<Expr(l + 2, EllipsisExpr(l + 2))>>,
        <<Call(l, Name(l, S_y),
               <<Lambda(l, Arguments(<<Arg(l, "z", NoneVal)>>, NoneVal, <<>>, <<>>,
                                     NoneVal, <<>>),
                        Num(l, 0))>>)>>,
        Annotation(l + 1)),
     Assign(l, <<Name(l, S__T)>>, Call(l, Name(l, S_TypeVar), <<>>)),
     Assign(l, <<Name(l, S_T)>>, Call(l, Name(l, S_TypeVar), <<>>))}

\* the module bodies of n statements, the i-th on line 10 * i (and following)
RECURSIVE ModulesFrom(_, _)
ModulesFrom(i, n) ==
    IF n = 0 THEN {<<>>}
    ELSE {<<st>> \o rest : st \in TopStatements(10 * i), rest \in ModulesFrom(i + 1, n - 1)}

Modules == UNION {ModulesFrom(1, n) : n \in 1..MaxStmts}

Input(filename, strict, body) ==
    [filename |-> filename, strict |-> strict, tree |-> body]

\* what a visitor is constructed with and the tree it is run on
Inputs ==
    {Input(<<S_a_pyi>>, FALSE, <<st>>) : st \in IfStatements(10)}
    \cup {Input(<<S_a_pyi>>, strict, <<st>>) :
            strict \in BOOLEAN, st \in BodyFunctions(10) \cup ParamFunctions(10)}
    \cup {Input(filename, FALSE, <<st>>) :
            filename \in Filenames, st \in Assignments(10)}
    \cup {Input(<<S_a_pyi>>, strict, body) : strict \in BOOLEAN, body \in Modules}

----------------------------------------------------------------------------
(* The visitor run on a tree: visitor.visit(tree) *)

NoVisitor == LintVisitor(<<>>, FALSE)

Init ==
    /\ \E inp \in Inputs :
          /\ self = LintVisitor(inp.filename, inp.strict)
          /\ tree = inp.tree
    /\ pos = 0
    /\ pc = "visit"
    /\ exc = NoException
    /\ args = <<>>
    /\ argi = 0
    /\ diri = 0
    /\ results = <<>>
    /\ stderr = <<>>
    /\ exit_code = -1

\* generic_visit of the Module node: visit the next statement of its body
VisitStatement ==
    /\ pc = "visit"
    /\ pos < Len(tree)
    /\ LET v == visit(Frame(self, stderr), tree[pos + 1])
       IN  /\ self' = Object(v)
           /\ stderr' = v.stderr
           /\ exc' = v.exc
           /\ pc' = IF Raised(v) THEN "raised" ELSE "visit"
    /\ pos' = pos + 1
    /\ UNCHANGED <<tree, args, argi, diri, results, exit_code>>

\* visitor.visit(tree) returns
VisitReturn ==
    /\ pc = "visit"
    /\ pos = Len(tree)
    /\ pc' = "visited"
    /\ UNCHANGED <<self, tree, pos, exc, args, argi, diri, results, stderr, exit_code>>

Next == VisitStatement \/ VisitReturn

Spec == Init /\ [][Next]_vars

----------------------------------------------------------------------------
(* The command line: python -m stublint dirs_or_files... *)

\* what a path names in the file system: nothing, a directory with the files
\* os.walk finds under it, or a file with its text (which may not be UTF-8,
\* or not parse) and the tree ast.parse gives for it
Missing(path) == [kind |-> "missing", path |-> path]
Dir(path, files) == [kind |-> "dir", path |-> path, files |-> files]
File(path, text, body) ==
    [kind |-> "file", path |-> path, text |-> text, tree |-> body]

\* extract_files resumed with argument i being expanded, d of its paths already
\* yielded: the next thing the generator does
RECURSIVE Resume(_, _, _)
Resume(a, i, d) ==
    IF i > Len(a) THEN [event |-> "stop", argi |-> i, diri |-> 0]
    ELSE IF a[i].kind = "missing"
    THEN [event |-> "raise", argi |-> i, diri |-> 0,
          exc |-> StubLintError("path does not exist: ", a[i].path)]
    ELSE IF a[i].kind = "dir"
    THEN IF d >= Len(a[i].files) THEN Resume(a, i + 1, 0)
         ELSE IF endswith(PathName(a[i].files[d + 1].path), S_pyi)
         THEN [event |-> "yield", argi |-> i, diri |-> d + 1]
         ELSE Resume(a, i, d + 1)
    ELSE IF d >= 1 THEN Resume(a, i + 1, 0)
    ELSE IF PathSuffix(a[i].path) # S_pyi
    THEN [event |-> "raise", argi |-> i, diri |-> 0,
          exc |-> StubLintError("stublint works only on stub files: ", a[i].path)]
    ELSE [event |-> "yield", argi |-> i, diri |-> 1]

\* the file of the path extract_files yielded last
Yielded == IF args[argi].kind = "dir" THEN args[argi].files[diri] ELSE args[argi]

\* run: the list comprehension asks extract_files for the next path
extract_files ==
    /\ pc = "extract"
    /\ LET r == Resume(args, argi, diri)
       IN  /\ argi' = r.argi
           /\ diri' = r.diri
           /\ pc' = CASE r.event = "yield" -> "lint_file"
                      [] r.event = "raise" -> "raised"
                      [] r.event = "stop" -> "returned"
           /\ exc' = IF r.event = "raise" THEN r.exc ELSE exc
    /\ UNCHANGED <<self, tree, pos, args, results, stderr, exit_code>>

LintFileSkippingSyntaxErrors ==
    /\ pc = "lint_file"
    /\ IF Yielded.text = "undecodable"
       THEN /\ exc' = StubLintError("could not decode contents of as UTF-8", Yielded.path)
            /\ pc' = "raised"
            /\ UNCHANGED <<self, tree, pos>>
       ELSE IF Yielded.text = "syntax_error"
       THEN /\ pc' = "extract"
            /\ UNCHANGED <<self, tree, pos, exc>>
       ELSE /\ self' = LintVisitor(Yielded.path, FALSE)
            /\ tree' = Yielded.tree
            /\ pos' = 0
            /\ pc' = "visit"
            /\ exc' = exc
    /\ UNCHANGED <<args, argi, diri, results, stderr, exit_code>>

\* lint_file up to the construction of the visitor
lint_file ==
    /\ pc = "lint_file"
    /\ IF Yielded.text = "undecodable"
       THEN /\ exc' = StubLintError("could not decode contents of as UTF-8", Yielded.path)
            /\ pc' = "raised"
            /\ UNCHANGED <<self, tree, pos>>
       ELSE IF Yielded.text = "syntax_error"
       THEN /\ exc' = StubLintError("syntax error in ", Yielded.path)
            /\ pc' = "raised"
            /\ UNCHANGED <<self, tree, pos>>
       ELSE /\ self' = LintVisitor(Yielded.path, FALSE)
            /\ tree' = Yielded.tree
            /\ pos' = 0
            /\ pc' = "visit"
            /\ exc' = exc
    /\ UNCHANGED <<args, argi, diri, results, stderr, exit_code>>

\* lint_file returns, and the list comprehension appends its result
lint_file_return ==
    /\ pc = "visited"
    /\ results' = Append(results, ~self.saw_error)
    /\ pc' = "extract"
    /\ UNCHANGED <<self, tree, pos, exc, args, argi, diri, stderr, exit_code>>

all(bs) == \A i \in 1..Len(bs) : bs[i]

\* run returns all(...) and main exits
main_exit ==
    /\ pc = "returned"
    /\ exit_code' = (IF all(results) THEN 0 ELSE 0)
    /\ pc' = "exited"
    /\ UNCHANGED <<self, tree, pos, exc, args, argi, diri, results, stderr>>

\* main: except StubLintError
main_except ==
    /\ pc = "raised"
    /\ exc.type = "StubLintError"
    /\ stderr' = Append(stderr, [filename |-> exc.path, lineno |-> 0,
                                 msg |-> "stublint: " \o exc.msg])
    /\ exit_code' = 1
    /\ pc' = "exited"
    /\ UNCHANGED <<self, tree, pos, exc, args, argi, diri, results>>

\* any other exception leaves main: the interpreter prints the traceback and
\* exits with status 1
main_uncaught ==
    /\ pc = "raised"
    /\ exc.type # "StubLintError"
    /\ stderr' = Append(stderr, [filename |-> <<>>, lineno |-> 0,
                                 msg |-> "Traceback: " \o exc.type])
    /\ exit_code' = 1
    /\ pc' = "exited"
    /\ UNCHANGED <<self, tree, pos, exc, args, argi, diri, results>>

\* the i-th argument's directory component
ArgDir(i) == <<ToString(i)>>

CleanBody(l) == <<Assign(l, <<Name(l, S__T)>>, Call(l, Name(l, S_TypeVar), <<>>))>>

\* two violations in sibling statements
DirtyBody(l) ==
    <<Assign(l, <<Name(l, S_T)>>, Call(l, Name(l, S_TypeVar), <<>>)),
      If(l + 1, Compare(l + 1, SysAttr(l + 1, "platform"), <<"Eq">>,
                        <<Str(l + 1, "solaris")>>),
         <<Pass(l + 2)>>, <<>>)>>

\* a violation, then the comparison of a slice with an int, then a violation
RaisingBody(l) ==
    <<Assign(l, <<Name(l, S_T)>>, Call(l, Name(l, S_TypeVar), <<>>)),
      If(l + 1, Compare(l + 1, Subscript(l + 1, SysAttr(l + 1, "version_info"),
                                         Slice(NoneVal, Num(l + 1, 2), NoneVal)),
                        <<"Eq">>, <<Num(l + 1, 3)>>),
         <<Pass(l + 2)>>, <<>>),
      Assign(l + 3, <<Name(l + 3, S_T)>>, Call(l + 3, Name(l + 3, S_TypeVar), <<>>))>>

\* what the i-th argument may name
Entries(i) ==
    {Missing(<<ArgDir(i), S_a_pyi>>),
     File(<<ArgDir(i), S_a_py>>, "ok", DirtyBody(1)),
     File(<<ArgDir(i), S_pyi>>, "ok", DirtyBody(1)),
     File(<<ArgDir(i), S_a_pyi>>, "undecodable", <<>>),
     File(<<ArgDir(i), S_a_pyi>>, "syntax_error", <<>>),
     File(<<ArgDir(i), S_a_pyi>>, "ok", CleanBody(1)),
     File(<<ArgDir(i), S_a_pyi>>, "ok", DirtyBody(1)),
     File(<<ArgDir(i), S_a_pyi>>, "ok", RaisingBody(1)),
     Dir(<<ArgDir(i), S_pkg>>, <<>>),
     Dir(<<ArgDir(i), S_pkg>>,
         <<File(<<ArgDir(i), S_pkg, S_a_py>>, "ok", DirtyBody(1)),
           File(<<ArgDir(i), S_pkg, S_pyi>>, "ok", DirtyBody(1)),
           File(<<ArgDir(i), S_pkg, S_b_pyi>>, "syntax_error", <<>>),
           File(<<ArgDir(i), S_pkg, S_a_pyi>>, "ok", DirtyBody(1))>>)}

RECURSIVE ArgListsFrom(_, _)
ArgListsFrom(i, n) ==
    IF n = 0 THEN {<<>>}
    ELSE {<<e>> \o rest : e \in Entries(i), rest \in ArgListsFrom(i + 1, n - 1)}

\* the command lines: nargs='+', so at least one argument
ArgLists ==
    UNION {ArgListsFrom(1, n) : n \in 1..MaxArgv}
    \cup {<<File(<<ArgDir(1), S_a_pyi>>, "ok", body)>> : body \in Modules}

InitRun ==
    /\ args \in ArgLists
    /\ argi = 1
    /\ diri = 0
    /\ results = <<>>
    /\ self = NoVisitor
    /\ tree = <<>>
    /\ pos = 0
    /\ pc = "extract"
    /\ exc = NoException
    /\ stderr = <<>>
    /\ exit_code = -1

NextRun ==
    \/ extract_files
    \/ lint_file
    \/ VisitStatement
    \/ VisitReturn
    \/ lint_file_return
    \/ main_exit
    \/ main_except
    \/ main_uncaught

SpecRun == InitRun /\ [][NextRun]_vars
----------------------------------------------------------------------------
(* Properties *)

\* the messages printed for line l, in the order printed
RECURSIVE MsgsOf(_, _)
MsgsOf(lines, l) ==
    IF lines = <<>> THEN <<>>
    ELSE (IF Head(lines).lineno = l THEN <<Head(lines).msg>> ELSE <<>>)
         \o MsgsOf(Tail(lines), l)

Msgs(l) == MsgsOf(stderr, l)

\* how many times message m was printed for line l
CountMsg(l, m) ==
    Cardinality({k \in 1..Len(stderr) : stderr[k].lineno = l /\ stderr[k].msg = m})

\* a node and the nodes below it, and the same for a list of nodes
RECURSIVE Nodes(_), NodesOfAll(_)
Nodes(node) == <<node>> \o NodesOfAll(Children(node))
NodesOfAll(nodes) ==
    IF nodes = <<>> THEN <<>> ELSE Nodes(Head(nodes)) \o NodesOfAll(Tail(nodes))

\* the statements of the module body whose visit has begun, and those whose
\* visit has returned
Begun == SubSeq(tree, 1, pos)
Returned == SubSeq(tree, 1, IF pc = "raised" THEN pos - 1 ELSE pos)

\* the nodes of class t in and below the statements stmts
NodesOfType(stmts, t) ==
    LET IsT(n) == n.type = t IN SelectSeq(NodesOfAll(stmts), IsT)

IsSys(e, attr) ==
    /\ e.type = "Attribute"
    /\ e.attr = attr
    /\ e.value.type = "Name"
    /\ e.value.id = S_sys

IsSimpleComparison(e) ==
    e.type = "Compare" /\ Len(e.ops) = 1 /\ Len(e.comparators) = 1

\* the if statements at the top of the module whose test is one simple
\* comparison that is routed to the version-check rule
IsVersionIf(st) ==
    /\ st.type = "If"
    /\ IsSimpleComparison(st.test)
    /\ \/ st.test.left.type = "Subscript"
       \/ IsSys(st.test.left, "version_info")

VersionIfs(stmts) == SelectSeq(stmts, IsVersionIf)

\* C1: visiting a well-formed tree never ends in an uncaught exception; each
\* rule only reports through error().
C1_VisitNeverRaises == pc # "raised"

OperatorMessages ==
    {"Use only < and >= for version comparisons",
     "Do not use strict equality for version checks",
     "version comparison must be against a length-1 tuple",
     "version comparison must be against a length-2 tuple"}

IsOperatorMessage(m) == m \in OperatorMessages

OperatorMsgs(l) == SelectSeq(Msgs(l), IsOperatorMessage)

\* the shapes of left operand the claim names: "none" (no subscript), "zero"
\* ([0]), 1 ([:1]) and 2 ([:2]); "other" for any other subscript
LeftShape(left) ==
    IF left.type # "Subscript" THEN "none"
    ELSE IF left.slice.type = "Index"
    THEN (IF left.slice.value.type = "Num" /\ left.slice.value.n = 0
          THEN "zero" ELSE "other")
    ELSE IF /\ left.slice.type = "Slice"
            /\ left.slice.lower = NoneVal
            /\ left.slice.step = NoneVal
            /\ left.slice.upper.type = "Num"
    THEN (IF left.slice.upper.n = 1 THEN "one"
          ELSE IF left.slice.upper.n = 2 THEN "two" ELSE "other")
    ELSE "other"

SliceLength(shape) == IF shape = "one" THEN 1 ELSE 2

LengthMessage(shape) ==
    IF shape = "one" THEN "version comparison must be against a length-1 tuple"
    ELSE "version comparison must be against a length-2 tuple"

\* the operator policy as the claim states it
PolicyAsClaimed(shape, op, comparator) ==
    IF op \in {"Lt", "GtE"} THEN <<>>
    ELSE IF op \in {"Gt", "LtE"}
    THEN <<"Use only < and >= for version comparisons">>
    ELSE IF shape \in {"one", "two"} /\ comparator.type = "Tuple"
    THEN (IF Len(comparator.elts) = SliceLength(shape) THEN <<>>
          ELSE <<LengthMessage(shape)>>)
    ELSE <<"Do not use strict equality for version checks">>

\* the operator policy of the code: none for [0]; for == and != on [:N], the
\* length of the comparator's elements decides, and a comparator without
\* elements gets no operator diagnostic (the rule raises there)
PolicyOfCode(shape, op, comparator) ==
    IF shape = "zero" THEN <<>>
    ELSE IF op \in {"Lt", "GtE"} THEN <<>>
    ELSE IF op \in {"Gt", "LtE"}
    THEN <<"Use only < and >= for version comparisons">>
    ELSE IF shape \in {"one", "two"}
    THEN (IF comparator.type \notin {"Tuple", "List"} THEN <<>>
          ELSE IF Len(comparator.elts) = SliceLength(shape) THEN <<>>
          ELSE <<LengthMessage(shape)>>)
    ELSE <<"Do not use strict equality for version checks">>

ClaimedOperators == {"Lt", "GtE", "Eq", "NotEq", "Gt", "LtE"}
ClaimedShapes == {"none", "zero", "one", "two"}

\* the case the claim leaves open: == or != on [:N] against a comparator
\* that is no tuple
SliceAgainstNonTuple(test) ==
    /\ LeftShape(test.left) \in {"one", "two"}
    /\ test.ops[1] \in {"Eq", "NotEq"}
    /\ test.comparators[1].type # "Tuple"

RaisesOn(e) ==
    /\ IsSimpleComparison(e)
    /\ LeftShape(e.left) \in {"one", "two"}
    /\ e.ops[1] \in {"Eq", "NotEq"}
    /\ e.comparators[1].type \notin {"Tuple", "List"}

\* the operands that are checked: those up to the first the rule raises on
CheckedOperands(values) ==
    {k \in 1..Len(values) : \A j \in 1..(k - 1) : ~RaisesOn(values[j])}

NotSimple(values) ==
    Cardinality({k \in CheckedOperands(values) : ~IsSimpleComparison(values[k])})

SimpleMsg == "Conditional expression must be a simple comparison"

IsIf(st) == st.type = "If"

TopIfs == SelectSeq(Begun, IsIf)

\* C4 as stated: only a top-level 'and' is unwrapped into operands; any other
\* test, a top-level 'or' included, is itself the sole operand; each operand
\* that is no simple comparison gets one 'must be a simple comparison'.
C4_OnlyAndUnwrapped ==
    \A i \in 1..Len(TopIfs) : LET st == TopIfs[i] IN
        CountMsg(st.lineno, SimpleMsg)
          = IF st.test.type = "BoolOp" /\ st.test.op = "And"
            THEN NotSimple(st.test.values)
            ELSE IF IsSimpleComparison(st.test) THEN 0 ELSE 1

\* C4 amended: a top-level boolean operation, 'and' or 'or', is unwrapped into
\* its operands, which are checked in order (up to the first one the
\* version-check rule raises on); any other test is itself the sole operand;
\* each checked operand that is no simple comparison gets one 'must be a
\* simple comparison'. An 'or' of two valid comparisons gets none.
C4_EveryBoolOpUnwrapped ==
    \A i \in 1..Len(TopIfs) : LET st == TopIfs[i] IN
        CountMsg(st.lineno, SimpleMsg)
          = IF st.test.type = "BoolOp"
            THEN NotSimple(st.test.values)
            ELSE IF IsSimpleComparison(st.test) THEN 0 ELSE 1

C4_OrOfTwoComparisons ==
    /\ pos = 1
    /\ tree[1].type = "If"
    /\ tree[1].test.type = "BoolOp"
    /\ tree[1].test.op = "Or"
    /\ \A k \in 1..Len(tree[1].test.values) :
          /\ IsSimpleComparison(tree[1].test.values[k])
          /\ IsSys(tree[1].test.values[k].left, "platform")
    /\ stderr = <<>>

BodyMsg == "Function body must contain only ... or pass"

IsSelfAttribute(t) ==
    t.type = "Attribute" /\ t.value.type = "Name" /\ t.value.id = S_self

IsPlaceholder(st) ==
    st.type = "Pass" \/ (st.type = "Expr" /\ st.value.type = "Ellipsis")

\* the function definitions whose visit has returned
Functions == NodesOfType(Returned, "FunctionDef")

\* the body statements the claim exempts: j counts from 1
ExemptAsClaimed(f, j) ==
    \/ j = 1 /\ IsPlaceholder(f.body[j])
    \/ f.body[j].type = "Raise"
    \/ /\ f.name = "__init__"
       /\ f.body[j].type = "Assign"
       /\ Len(f.body[j].targets) = 1
       /\ IsSelfAttribute(f.body[j].targets[1])

\* the body statements the code exempts: the first target decides
ExemptByCode(f, j) ==
    \/ j = 1 /\ IsPlaceholder(f.body[j])
    \/ f.body[j].type = "Raise"
    \/ /\ f.name = "__init__"
       /\ f.body[j].type = "Assign"
       /\ IsSelfAttribute(f.body[j].targets[1])

\* C5 as stated: in both modes a function gets one 'Function body must
\* contain only ... or pass' per body statement that is not a pass or ... at
\* index 0, not a raise, and not, in __init__, an assignment whose single
\* target is self.<name>; so self.x = y = 1 in __init__ is flagged.
C5_SingleTargetExempt ==
    \A i \in 1..Len(Functions) : LET f == Functions[i] IN \A j \in 1..Len(f.body) :
        CountMsg(f.body[j].lineno, BodyMsg)
          = IF ExemptAsClaimed(f, j) THEN 0 ELSE 1

\* C5 amended: in both modes a function gets one 'Function body must contain
\* only ... or pass' per body statement that is not a pass or ... at index 0,
\* not a raise, and not, in __init__, an assignment whose first target is
\* self.<name>, whatever its other targets; so self.x = y = 1 in __init__ is
\* not flagged, and y = self.x = 1 is.
C5_FirstTargetExempt ==
    /\ \A i \in 1..Len(Functions) : LET f == Functions[i] IN \A j \in 1..Len(f.body) :
          CountMsg(f.body[j].lineno, BodyMsg)
            = IF ExemptByCode(f, j) THEN 0 ELSE 1
    /\ \A k \in 1..Len(stderr) :
          stderr[k].msg = BodyMsg
          => \E i \in 1..Len(Functions) : \E j \in 1..Len(Functions[i].body) :
                Functions[i].body[j].lineno = stderr[k].lineno

C5_ChainedAssignmentInInit ==
    /\ pos = 1
    /\ tree[1].type = "FunctionDef"
    /\ tree[1].name = "__init__"
    /\ Len(tree[1].body) = 2
    /\ tree[1].body[1].type = "Assign"
    /\ Len(tree[1].body[1].targets) = 2
    /\ IsSelfAttribute(tree[1].body[1].targets[1])
    /\ tree[1].body[2].type = "Pass"
    /\ Msgs(tree[1].body[1].lineno) = <<>>
    /\ Msgs(tree[1].body[2].lineno) = <<BodyMsg>>

NotNameMsg == "TypeVar must be assigned to a name"
PrivateMsg == "Name of private TypeVar must start with _"

IsTypeVarCall(e) ==
    e.type = "Call" /\ e.func.type = "Name" /\ e.func.id = S_TypeVar

IsPublicName(t) == t.type = "Name" /\ (t.id = <<>> \/ t.id[1] # "_")

NamedTyping == self.filename[Len(self.filename)] = S_typing_pyi

\* C6: an assignment of a call of the bare name TypeVar gets one 'TypeVar must
\* be assigned to a name' per target that is no simple name and one 'Name of
\* private TypeVar must start with _' per simple name without a leading
\* underscore, the latter only when the file is not named typing.pyi; any
\* other assignment gets neither.
C6_TypeVarNames ==
    \A i \in 1..Len(NodesOfType(Returned, "Assign")) :
      LET a == NodesOfType(Returned, "Assign")[i] IN
        /\ CountMsg(a.lineno, NotNameMsg)
             = IF IsTypeVarCall(a.value)
               THEN Cardinality({k \in 1..Len(a.targets) : a.targets[k].type # "Name"})
               ELSE 0
        /\ CountMsg(a.lineno, PrivateMsg)
             = IF IsTypeVarCall(a.value) /\ ~NamedTyping
               THEN Cardinality({k \in 1..Len(a.targets) : IsPublicName(a.targets[k])})
               ELSE 0

C6_AnyStrInTyping ==
    /\ pos = 1
    /\ self.filename = <<S_pkg, S_typing_pyi>>
    /\ tree[1].type = "Assign"
    /\ IsTypeVarCall(tree[1].value)
    /\ Len(tree[1].targets) = 2
    /\ tree[1].targets[1] = Name(10, S_AnyStr)
    /\ tree[1].targets[2].type = "Attribute"
    /\ Msgs(10) = <<NotNameMsg>>

ArgMsg == "Argument is missing a type annotation"
DefaultMsg == "default value must be ... in a stub"

\* the parameters of a parameter list
ParamsOf(a) == a.args \o Opt(a.vararg) \o a.kwonlyargs \o Opt(a.kwarg)

Unannotated(x) == IF x = NoneVal THEN 0 ELSE IF x.annotation = NoneVal THEN 1 ELSE 0

\* the number of parameters the claim says are reported
MissingAnnotations(a) ==
    Cardinality({k \in 1..Len(a.args) :
                    /\ a.args[k].annotation = NoneVal
                    /\ ~(k = 1 /\ a.args[k].arg \in {"self", "cls"})})
    + Unannotated(a.vararg)
    + Cardinality({k \in 1..Len(a.kwonlyargs) : a.kwonlyargs[k].annotation = NoneVal})
    + Unannotated(a.kwarg)

\* C7: in strict mode a parameter list gets one 'Argument is missing a type
\* annotation' per unannotated parameter among the first positional one
\* unless it is named self or cls, the other positional ones, *args, the
\* keyword-only ones and **kwargs; in non-strict mode the rule prints nothing.
C7_MissingAnnotations ==
    /\ \A i \in 1..Len(NodesOfType(Returned, "arguments")) :
        LET a == NodesOfType(Returned, "arguments")[i] IN
          ParamsOf(a) # <<>>
          => CountMsg(ParamsOf(a)[1].lineno, ArgMsg)
               = IF self.strict THEN MissingAnnotations(a) ELSE 0
    /\ ~self.strict
          => \A k \in 1..Len(stderr) : stderr[k].msg \notin {ArgMsg, DefaultMsg}

C7_SelfInSecondPlace ==
    /\ pos = 1
    /\ self.strict
    /\ tree[1].type = "FunctionDef"
    /\ Len(tree[1].args.args) = 2
    /\ tree[1].args.args[1].arg = "cls"
    /\ tree[1].args.args[2].arg = "self"
    /\ tree[1].args.vararg # NoneVal
    /\ tree[1].args.vararg.annotation = NoneVal
    /\ tree[1].args.kwonlyargs = <<>>
    /\ tree[1].args.kwarg = NoneVal
    /\ CountMsg(10, ArgMsg) = 2

\* the if statements at the top of the module whose test is one simple
\* comparison with sys.platform on the left
IsPlatformIf(st) ==
    /\ st.type = "If"
    /\ IsSimpleComparison(st.test)
    /\ IsSys(st.test.left, "platform")

PlatformIfs == SelectSeq(Returned, IsPlatformIf)

PlatformOperatorMsgs(op) ==
    IF op \in {"Eq", "NotEq"} THEN <<>>
    ELSE <<"sys.platform check only supports == and !=">>

PlatformComparatorMsgs(c) ==
    IF c.type # "Str"
    THEN <<"sys.platform check must be against a single string">>
    ELSE IF c.s \in {"linux", "win32", "cygwin", "darwin"} THEN <<>>
    ELSE <<"unrecognized platform \"" \o c.s \o "\"">>

\* C8: for a comparison of sys.platform the operator and the comparator are
\* checked independently: one diagnostic for an operator other than == and
\* !=, and one for a comparator that is no string literal or is a string
\* outside linux, win32, cygwin, darwin (carrying the value); none exactly
\* when the operator is == or != and the comparator is one of the four.
C8_PlatformCheck ==
    \A i \in 1..Len(PlatformIfs) : LET st == PlatformIfs[i] IN
        /\ Msgs(st.lineno)
             = PlatformOperatorMsgs(st.test.ops[1])
               \o PlatformComparatorMsgs(st.test.comparators[1])
        /\ (Msgs(st.lineno) = <<>>)
             <=> (/\ st.test.ops[1] \in {"Eq", "NotEq"}
                  /\ st.test.comparators[1].type = "Str"
                  /\ st.test.comparators[1].s \in {"linux", "win32", "cygwin", "darwin"})

C8_BadOperatorAndPlatform ==
    /\ pos = 1
    /\ IsPlatformIf(tree[1])
    /\ tree[1].test.ops[1] = "Lt"
    /\ tree[1].test.comparators[1] = Str(10, "solaris")
    /\ Len(Msgs(10)) = 2
    /\ Msgs(10)[2] = "unrecognized platform \"solaris\""

\* what the visitor prints for statement st taken alone
Alone(st) == visit(Frame(LintVisitor(self.filename, self.strict), <<>>), st).stderr

\* is line k of stderr about the i-th statement of the module (lines 10 * i ...)
About(k, i) == stderr[k].lineno >= 10 * i /\ stderr[k].lineno < 10 * (i + 1)

\* C2: a diagnostic never stops the walk: when two sibling statements each
\* have one rule violation, the run prints both diagnostics, that of the
\* earlier sibling first.
C2_BothSiblingsReported ==
    pc \in {"visited", "raised"}
    => \A i \in 1..Len(tree) : \A j \in (i + 1)..Len(tree) :
          (Len(Alone(tree[i])) = 1 /\ Len(Alone(tree[j])) = 1)
          => \E a \in 1..Len(stderr) : \E b \in (a + 1)..Len(stderr) :
                About(a, i) /\ About(b, j)

\* the diagnostics printed for the file at path
IsDiagnosticOf(path, line) == line.filename = path /\ line.lineno > 0

Printed(path) ==
    LET Mine(line) == IsDiagnosticOf(path, line) IN SelectSeq(stderr, Mine)

\* C9: saw_error is true exactly when the visitor has printed a diagnostic,
\* and lint_file returns true exactly when its visitor printed none.
C9_SawErrorIffDiagnostic ==
    /\ pc \in {"visit", "visited"}
          => (self.saw_error <=> Printed(self.filename) # <<>>)
    /\ (pc \in {"extract", "lint_file", "returned"} /\ results # <<>>)
          => (results[Len(results)] <=> Printed(self.filename) = <<>>)

C9_FileWithDiagnostics ==
    /\ pc = "extract"
    /\ Len(results) = 2
    /\ results[1]
    /\ ~results[2]
    /\ Len(Printed(self.filename)) = 2

\* the files of the command line: the i-th argument when it is a file, and
\* the d-th file of the i-th argument when it is a directory
Positions ==
    {<<i, 1>> : i \in {k \in 1..Len(args) : args[k].kind = "file"}}
    \cup UNION {{<<i, d>> : d \in 1..Len(args[i].files)} :
                    i \in {k \in 1..Len(args) : args[k].kind = "dir"}}

FileAt(p) == IF args[p[1]].kind = "dir" THEN args[p[1]].files[p[2]] ELSE args[p[1]]

EndsWithPyi(name) ==
    /\ Len(name) >= 4
    /\ name[Len(name) - 3] = "."
    /\ name[Len(name) - 2] = "p"
    /\ name[Len(name) - 1] = "y"
    /\ name[Len(name)] = "i"

\* the files extract_files yields: a file argument with the suffix .pyi, and
\* the files of a directory whose names end with .pyi
IsStub(p) ==
    LET name == FileAt(p).path[Len(FileAt(p).path)]
    IN  /\ EndsWithPyi(name)
        /\ args[p[1]].kind = "file" => Len(name) > 4

\* what the analysis of the file prints when it is analysed
DiagnosticsOf(file) ==
    VisitEach(Frame(LintVisitor(file.path, FALSE), <<>>), file.tree).stderr

EndedByUsageError == pc = "exited" /\ exc.type = "StubLintError"

\* C10 as stated: a usage error on one item aborts that item only: every
\* other item, before or after it, is analysed and its diagnostics printed.
C10_OtherItemsAnalysed ==
    EndedByUsageError
    => \A p \in Positions :
          (IsStub(p) /\ FileAt(p).text = "ok")
          => Printed(FileAt(p).path) = DiagnosticsOf(FileAt(p))

\* the files before and after the place where extract_files stopped
Before(p) == p[1] < argi \/ (p[1] = argi /\ p[2] < diri)
After(p) == p[1] > argi \/ (p[1] = argi /\ p[2] > diri)

\* C10 amended: the first usage error in argument order ends the whole run
\* with exit status 1: every item before it has been analysed and its
\* diagnostics printed, and no item after it is analysed.
C10_RunEndsAtFirstUsageError ==
    EndedByUsageError
    => /\ exit_code = 1
       /\ \A i \in 1..(argi - 1) : args[i].kind # "missing"
       /\ \A p \in Positions :
             /\ (Before(p) /\ args[p[1]].kind = "file") => IsStub(p)
             /\ (Before(p) /\ IsStub(p))
                   => /\ FileAt(p).text = "ok"
                      /\ Printed(FileAt(p).path) = DiagnosticsOf(FileAt(p))
             /\ After(p) => Printed(FileAt(p).path) = <<>>
       /\ Len(results) = Cardinality({p \in Positions : Before(p) /\ IsStub(p)})

C10_ErrorAfterAndBeforeDirtyFiles ==
    /\ EndedByUsageError
    /\ Len(args) = 2
    /\ argi = 1
    /\ diri = 3
    /\ results = <<FALSE>>
    /\ args[2].kind = "file"
    /\ IsStub(<<2, 1>>)
    /\ DiagnosticsOf(args[2]) # <<>>
    /\ Printed(args[2].path) = <<>>
    /\ Len(Printed(args[1].files[2].path)) = 2
====
